---------------------------- MODULE Spec2Model ----------------------------
(***************************************************************************)
(* Model of the App component (src/unnamed/part_000, lines 11-328) and of  *)
(* the editImage service wrapper (lines 349-402).                          *)
(*                                                                         *)
(* The component's useState cells are the variables.  Every event handler  *)
(* runs to its first await over the values of the render it was created    *)
(* in; the continuation of an async handler keeps those values (a closure) *)
(* while the setState calls it makes act on the current state.  A pending  *)
(* continuation is therefore a record holding the captured values.         *)
(***************************************************************************)
EXTENDS Integers, Sequences, FiniteSets, TLC

VARIABLES
    chatHistory,    \* useState<ChatMessage[]>              (line 12)
    historyStack,   \* useState<ImageState[]>               (line 13)
    historyIndex,   \* useState<number>(-1)                 (line 14)
    contextImage,   \* useState<{file,url,mimeType}|null>   (line 16)
    prompt,         \* useState<string>('')                 (line 17)
    isLoading,      \* useState<boolean>(false)             (line 18)
    error,          \* useState<string|null>(null)          (line 19)
    edits,          \* pending handleEdit continuations, oldest first
    uploads,        \* pending handleInitialImageUpload continuations
    now,            \* the reading of Date.now()
    nextUrl,        \* number of object URLs handed out by URL.createObjectURL
    revoked         \* per object URL, how often URL.revokeObjectURL was called

vars == <<chatHistory, historyStack, historyIndex, contextImage, prompt,
          isLoading, error, edits, uploads, now, nextUrl, revoked>>

-----------------------------------------------------------------------------
(* Bounds of the model *)

MaxInFlight == 2

MaxUploads == 1

MaxVersions == 2

MaxChat == 5

MaxClock == 1

MaxUrls == 1

-----------------------------------------------------------------------------
(* Values *)

Null == [null |-> TRUE]

\* A message is the sequence of the pieces it is concatenated from; null is
\* the empty sequence.
NoError == <<>>

\* A MIME type "top/sub" is the pair of its two parts.
ImagePng == <<"image", "png">>

TextPlain == <<"text", "plain">>

\* The files the user can pick in the base-image file input.
BaseFiles ==
    { [name |-> "a.png", type |-> ImagePng,  data |-> <<"A">>],
      [name |-> "t.txt", type |-> TextPlain, data |-> <<"T">>] }

\* The files the user can pick in the context-image file input.
ContextFiles ==
    { [name |-> "k.png", type |-> ImagePng,  data |-> <<"K">>],
      [name |-> "t.txt", type |-> TextPlain, data |-> <<"T">>] }

\* The texts the user can have in the prompt input, as character sequences.
Prompts == { <<>>, <<" ">>, <<"a">> }

\* The image bytes the remote model can answer with are the bytes of the base
\* image it was given followed by one of these marks, so that an image tells
\* which image it was generated from.
ResponseTags == { "r1" }

\* The messages of the errors ai.models.generateContent can throw.
ApiErrors == { <<"quota">> }

Whitespace == { " " }

\* file.type.startsWith('image/')
StartsWithImage(type) == type[1] = "image"

\* Variant of Trim that leaves the text as typed.
Trim_AsTyped(s) == s

\* String.prototype.trim
RECURSIVE Trim(_)
Trim(s) ==
    IF s = <<>> THEN <<>>
    ELSE IF Head(s) \in Whitespace THEN Trim(Tail(s))
    ELSE IF s[Len(s)] \in Whitespace THEN Trim(SubSeq(s, 1, Len(s) - 1))
    ELSE s

\* The data URL "data:<mime>;base64,<payload>" is the pair of the two parts
\* that its comma separates.
DataUrl(mime, payload) == <<mime, payload>>

\* fileToDataUrl, when the FileReader's onload fires
fileToDataUrl(file) == DataUrl(file.type, file.data)

\* dataUrl.split(',')[1]
dataUrlToBase64(dataUrl) == dataUrl[2]

\* Date.now() inside a template literal: `${type}-${Date.now()}`
MakeId(type) == <<type, now>>

\* Array.prototype.slice(0, end)
Slice(seq, end) == SubSeq(seq, 1, IF end < Len(seq) THEN end ELSE Len(seq))

\* Array.prototype.filter
RECURSIVE Filter(_, _)
Filter(seq, id) ==
    IF seq = <<>> THEN <<>>
    ELSE IF Head(seq).id # id THEN <<Head(seq)>> \o Filter(Tail(seq), id)
    ELSE Filter(Tail(seq), id)

\* historyStack[historyIndex], undefined (Null) out of range
ElemAt(stack, index) ==
    IF index >= 0 /\ index < Len(stack) THEN stack[index + 1] ELSE Null

canUndo == historyIndex > 0

canRedo == historyIndex < Len(historyStack) - 1

\* URL.revokeObjectURL(url) applied to the revocation record
Revoke(rec, url) == [rec EXCEPT ![url] = @ + 1]

\* A continuation that has run to its end is no longer pending.
RemoveAt(pending, s) ==
    SubSeq(pending, 1, s - 1) \o SubSeq(pending, s + 1, Len(pending))

EditSlots == DOMAIN edits

UploadSlots == DOMAIN uploads

-----------------------------------------------------------------------------
Init ==
    /\ chatHistory = <<>>
    /\ historyStack = <<>>
    /\ historyIndex = -1
    /\ contextImage = Null
    /\ prompt = <<>>
    /\ isLoading = FALSE
    /\ error = NoError
    /\ edits = <<>>
    /\ uploads = <<>>
    /\ now = 0
    /\ nextUrl = 0
    /\ revoked = [u \in 1..MaxUrls |-> 0]

\* Time passes between two events.
Tick ==
    /\ now < MaxClock
    /\ now' = now + 1
    /\ UNCHANGED <<chatHistory, historyStack, historyIndex, contextImage,
                   prompt, isLoading, error, edits, uploads, nextUrl, revoked>>

-----------------------------------------------------------------------------
(* Upload of a base image: handleInitialImageUpload, lines 40-68 *)

InvalidUploadMessage == <<"Please upload a valid image file.">>

UnreadableUploadMessage == <<"Failed to read the uploaded file.">>

\* Lines 51-59: the state a readable upload installs.
UploadedImageState(file) ==
    [imageUrl |-> fileToDataUrl(file), mimeType |-> file.type]

\* Variant of UploadedStack that keeps the versions there were.
UploadedStack_Append(file) == Append(historyStack, UploadedImageState(file))

UploadedStack(file) == <<UploadedImageState(file)>>

UploadedIndex == 0

\* Variant of UploadedChat that keeps the log there was.
UploadedChat_Kept(file) == chatHistory

UploadedChat(file) ==
    << [id |-> MakeId("bot"), type |-> "bot",
        imageUrl |-> fileToDataUrl(file), mimeType |-> file.type] >>

\* Lines 41-48: the handler up to its await.  The file input is opened by the
\* 'Upload Image' / 'New' buttons (lines 195-201, 233-239), which are never
\* disabled.
HandleInitialImageUpload(file) ==
    IF ~StartsWithImage(file.type)
    THEN /\ error' = InvalidUploadMessage
         /\ UNCHANGED <<chatHistory, historyStack, historyIndex, contextImage,
                        prompt, isLoading, edits, uploads, now, nextUrl,
                        revoked>>
    ELSE /\ Len(uploads) < MaxUploads
         /\ isLoading' = TRUE
         /\ error' = NoError
         /\ uploads' = Append(uploads, [file |-> file])
         /\ UNCHANGED <<chatHistory, historyStack, historyIndex, contextImage,
                        prompt, edits, now, nextUrl, revoked>>

\* Lines 50-61 and 64-66: fileToDataUrl resolved.
UploadLoaded(s) ==
    /\ LET file == uploads[s].file IN
        /\ historyStack' = UploadedStack(file)
        /\ historyIndex' = UploadedIndex
        /\ chatHistory' = UploadedChat(file)
    /\ prompt' = <<>>
    /\ contextImage' = Null
    /\ isLoading' = FALSE
    /\ uploads' = RemoveAt(uploads, s)
    /\ UNCHANGED <<error, edits, now, nextUrl, revoked>>

\* Lines 62-66: fileToDataUrl rejected.
UploadUnreadable(s) ==
    /\ error' = UnreadableUploadMessage
    /\ isLoading' = FALSE
    /\ uploads' = RemoveAt(uploads, s)
    /\ UNCHANGED <<chatHistory, historyStack, historyIndex, contextImage,
                   prompt, edits, now, nextUrl, revoked>>

-----------------------------------------------------------------------------
(* Context image: handleContextImageSelect, lines 70-84, and the discard    *)
(* button, lines 310-320                                                    *)

InvalidContextMessage == <<"Please upload a valid image file for context.">>

\* Line 273: the paperclip button that opens the context file input.
AttachEnabled == ~(Len(historyStack) = 0 \/ isLoading)

HandleContextImageSelect(file) ==
    /\ AttachEnabled
    /\ IF ~StartsWithImage(file.type)
       THEN /\ error' = InvalidContextMessage
            /\ UNCHANGED <<contextImage, nextUrl>>
       ELSE /\ nextUrl < MaxUrls
            /\ nextUrl' = nextUrl + 1
            /\ contextImage' =
                 [file |-> file, url |-> nextUrl + 1, mimeType |-> file.type]
            /\ UNCHANGED error
    /\ UNCHANGED <<chatHistory, historyStack, historyIndex, prompt, isLoading,
                   edits, uploads, now, revoked>>

\* Lines 306-316: the button exists while contextImage is set.
DiscardContext ==
    /\ contextImage # Null
    /\ revoked' = Revoke(revoked, contextImage.url)
    /\ contextImage' = Null
    /\ UNCHANGED <<chatHistory, historyStack, historyIndex, prompt, isLoading,
                   error, edits, uploads, now, nextUrl>>

-----------------------------------------------------------------------------
(* Prompt input, lines 281-289 *)

InputEnabled == ~(Len(historyStack) = 0 \/ isLoading)

SetPrompt(p) ==
    /\ InputEnabled
    /\ p # prompt
    /\ prompt' = p
    /\ UNCHANGED <<chatHistory, historyStack, historyIndex, contextImage,
                   isLoading, error, edits, uploads, now, nextUrl, revoked>>

-----------------------------------------------------------------------------
(* Undo and redo, lines 149-159 *)

\* Variant of UndoIndex that decrements whatever the cursor is.
UndoIndex_Unguarded == historyIndex - 1

UndoIndex == IF historyIndex > 0 THEN historyIndex - 1 ELSE historyIndex

RedoIndex ==
    IF historyIndex < Len(historyStack) - 1 THEN historyIndex + 1
    ELSE historyIndex

\* Lines 202-204: the button is disabled unless canUndo.
HandleUndo ==
    /\ canUndo
    /\ historyIndex' = UndoIndex
    /\ UNCHANGED <<chatHistory, historyStack, contextImage, prompt, isLoading,
                   error, edits, uploads, now, nextUrl, revoked>>

\* Lines 210-212: the button is disabled unless canRedo.
HandleRedo ==
    /\ canRedo
    /\ historyIndex' = RedoIndex
    /\ UNCHANGED <<chatHistory, historyStack, contextImage, prompt, isLoading,
                   error, edits, uploads, now, nextUrl, revoked>>

-----------------------------------------------------------------------------
(* The service wrapper: editImage, lines 349-401 *)

NoImageMessage == <<"API response did not contain an image.">>

UnknownServiceMessage == <<"An unknown error occurred while editing the image.">>

\* Lines 397-399: `Failed to edit image: ${error.message}`
FailedToEdit(message) == <<"Failed to edit image: ">> \o message

\* What ai.models.generateContent can do with a request for baseImage
\* (line 375): answer with an image part, answer without one, throw an Error,
\* or throw something that is no Error.
ServiceOutcomes(baseImage) ==
    { [kind |-> "image", data |-> Append(baseImage.base64, t),
       mimeType |-> ImagePng] : t \in ResponseTags }
    \cup { [kind |-> "noimage"] }
    \cup { [kind |-> "error", message |-> m] : m \in ApiErrors }
    \cup { [kind |-> "thrown"] }

\* Variant of editImage that hands a response without image part to its
\* caller as an empty image.
editImage_NoImageAccepted(outcome) ==
    IF outcome.kind = "image"
    THEN [thrown |-> FALSE, newBase64 |-> outcome.data,
          newMimeType |-> outcome.mimeType]
    ELSE IF outcome.kind = "noimage"
    THEN [thrown |-> FALSE, newBase64 |-> <<>>, newMimeType |-> ImagePng]
    ELSE IF outcome.kind = "error"
    THEN [thrown |-> TRUE, message |-> FailedToEdit(outcome.message)]
    ELSE [thrown |-> TRUE, message |-> UnknownServiceMessage]

\* Lines 385-401: what editImage hands to its caller for an outcome: the
\* result, or the Error it throws (thrown |-> TRUE, with the Error's message).
editImage(outcome) ==
    IF outcome.kind = "image"
    THEN [thrown |-> FALSE, newBase64 |-> outcome.data,
          newMimeType |-> outcome.mimeType]
    ELSE IF outcome.kind = "noimage"
    THEN [thrown |-> TRUE, message |-> FailedToEdit(NoImageMessage)]
    ELSE IF outcome.kind = "error"
    THEN [thrown |-> TRUE, message |-> FailedToEdit(outcome.message)]
    ELSE [thrown |-> TRUE, message |-> UnknownServiceMessage]

-----------------------------------------------------------------------------
(* Submission: handleEdit, lines 86-147 *)

PreconditionMessage == <<"Cannot edit without a base image and a prompt.">>

UnknownErrorMessage == <<"An unknown error occurred.">>

\* Line 292: the submit button.
SubmitEnabled ==
    ~(Len(historyStack) = 0 \/ isLoading \/ Trim(prompt) = <<>>)

\* Lines 97-102
UserMessage ==
    IF contextImage = Null
    THEN [id |-> MakeId("user"), type |-> "user", prompt |-> prompt]
    ELSE [id |-> MakeId("user"), type |-> "user", prompt |-> prompt,
          contextImageUrl |-> contextImage.url]

\* The values of the render that the continuation of handleEdit keeps using
\* after its awaits (historyStack, historyIndex, prompt, contextImage), its
\* locals (userMessage, baseImage, contextImg) and the await it is at:
\* "read" is line 113, "call" is line 120 (the request of line 375 is out).
Continuation(currentImage) ==
    [historyStack |-> historyStack,
     historyIndex |-> historyIndex,
     prompt       |-> prompt,
     contextImage |-> contextImage,
     userMessage  |-> UserMessage,
     baseImage    |-> [base64   |-> dataUrlToBase64(currentImage.imageUrl),
                       mimeType |-> currentImage.mimeType],
     contextImg   |-> Null,
     pc           |-> IF contextImage # Null THEN "read" ELSE "call"]

\* Lines 86-120: the handler up to its first await.
HandleEdit ==
    LET currentImage == ElemAt(historyStack, historyIndex) IN
    IF currentImage = Null \/ Trim(prompt) = <<>>
    THEN /\ error' = PreconditionMessage
         /\ UNCHANGED <<chatHistory, historyStack, historyIndex, contextImage,
                        prompt, isLoading, edits, uploads, now, nextUrl,
                        revoked>>
    ELSE IF isLoading
    THEN UNCHANGED vars
    ELSE /\ Len(edits) < MaxInFlight
         /\ historyIndex + 1 < MaxVersions
         /\ Len(chatHistory) + 2 <= MaxChat
         /\ isLoading' = TRUE
         /\ error' = NoError
         /\ chatHistory' = Append(chatHistory, UserMessage)
         /\ edits' = Append(edits, Continuation(currentImage))
         /\ UNCHANGED <<historyStack, historyIndex, contextImage, prompt,
                        uploads, now, nextUrl, revoked>>

\* Lines 290-292: a click on the submit button.
SubmitClick ==
    /\ SubmitEnabled
    /\ HandleEdit

\* Lines 285 and 288: Enter in the prompt input.
EnterKey ==
    /\ InputEnabled
    /\ ~isLoading
    /\ HandleEdit

\* Variant of Finally that leaves isLoading as it is.
Finally_StillLoading(h) ==
    /\ isLoading' = isLoading
    /\ prompt' = <<>>
    /\ revoked' =
         IF h.contextImage # Null THEN Revoke(revoked, h.contextImage.url)
         ELSE revoked
    /\ contextImage' = Null

\* Lines 139-146: the finally block, for the continuation h.
FinallyRevoked(h) ==
    IF h.contextImage # Null THEN Revoke(revoked, h.contextImage.url)
    ELSE revoked

Finally(h) ==
    /\ isLoading' = FALSE
    /\ prompt' = <<>>
    /\ revoked' = FinallyRevoked(h)
    /\ contextImage' = Null

\* Lines 136-138: the catch block.
Rollback(h, message) ==
    /\ error' = message
    /\ chatHistory' = Filter(chatHistory, h.userMessage.id)
    /\ UNCHANGED <<historyStack, historyIndex>>

\* Lines 113-117: the context file was read.
ContextLoaded(s) ==
    /\ edits[s].pc = "read"
    /\ LET h == edits[s]
           contextDataUrl == fileToDataUrl(h.contextImage.file)
       IN edits' = [edits EXCEPT
                ![s].contextImg = [base64   |-> dataUrlToBase64(contextDataUrl),
                                   mimeType |-> h.contextImage.mimeType],
                ![s].pc = "call"]
    /\ UNCHANGED <<chatHistory, historyStack, historyIndex, contextImage,
                   prompt, isLoading, error, uploads, now, nextUrl, revoked>>

\* Line 113 rejects with the FileReader's event, which is no Error (line 137).
ContextUnreadable(s) ==
    /\ edits[s].pc = "read"
    /\ Rollback(edits[s], UnknownErrorMessage)
    /\ Finally(edits[s])
    /\ edits' = RemoveAt(edits, s)
    /\ UNCHANGED <<uploads, now, nextUrl>>

\* Variant of NewHistoryStack that keeps the versions past the cursor.
NewHistoryStack_NoSlice(h) == h.historyStack

\* Variant of NewHistoryStack that truncates the versions there are at the
\* cursor there is when the result is applied.
NewHistoryStack_Current(h) == Slice(historyStack, historyIndex + 1)

\* Line 130
NewHistoryStack(h) == Slice(h.historyStack, h.historyIndex + 1)

\* Variant of NewHistoryIndex that takes the length before the truncation.
NewHistoryIndex_Untruncated(h) == Len(h.historyStack)

\* Line 133
NewHistoryIndex(h) == Len(NewHistoryStack(h))

\* Lines 121 and 131
NewImageState(result) ==
    [imageUrl |-> DataUrl(result.newMimeType, result.newBase64),
     mimeType |-> result.newMimeType]

\* Lines 121-128
NewBotMessage(result) ==
    [id |-> MakeId("bot"), type |-> "bot",
     imageUrl |-> DataUrl(result.newMimeType, result.newBase64),
     mimeType |-> result.newMimeType]

\* Lines 132-135
Commit(h, result) ==
    /\ historyStack' = Append(NewHistoryStack(h), NewImageState(result))
    /\ historyIndex' = NewHistoryIndex(h)
    /\ chatHistory' = Append(chatHistory, NewBotMessage(result))
    /\ UNCHANGED error

\* Line 120 is awaited by the continuation in slot s.
AtCall(s) == edits[s].pc = "call"

\* Lines 120-146: editImage returned or threw.
EditReturned(s, outcome) ==
    /\ AtCall(s)
    /\ IF editImage(outcome).thrown
       THEN Rollback(edits[s], editImage(outcome).message)
       ELSE Commit(edits[s], editImage(outcome))
    /\ Finally(edits[s])
    /\ edits' = RemoveAt(edits, s)
    /\ UNCHANGED <<uploads, now, nextUrl>>

EditSucceeded(s) ==
    /\ AtCall(s)
    /\ \E outcome \in ServiceOutcomes(edits[s].baseImage) :
        /\ ~editImage(outcome).thrown
        /\ EditReturned(s, outcome)

EditFailed(s) ==
    /\ AtCall(s)
    /\ \E outcome \in ServiceOutcomes(edits[s].baseImage) :
        /\ editImage(outcome).thrown
        /\ EditReturned(s, outcome)

-----------------------------------------------------------------------------
Next ==
    \/ Tick
    \/ \E file \in BaseFiles : HandleInitialImageUpload(file)
    \/ \E s \in UploadSlots : UploadLoaded(s)
    \/ \E s \in UploadSlots : UploadUnreadable(s)
    \/ \E file \in ContextFiles : HandleContextImageSelect(file)
    \/ DiscardContext
    \/ \E p \in Prompts : SetPrompt(p)
    \/ HandleUndo
    \/ HandleRedo
    \/ SubmitClick
    \/ EnterKey
    \/ \E s \in EditSlots : ContextLoaded(s)
    \/ \E s \in EditSlots : ContextUnreadable(s)
    \/ \E s \in EditSlots : EditSucceeded(s)
    \/ \E s \in EditSlots : EditFailed(s)

Spec == Init /\ [][Next]_vars

\* The step the continuation in slot s takes when what it awaits ends.
Resume(s) ==
    /\ s \in EditSlots
    /\ ContextLoaded(s) \/ ContextUnreadable(s) \/ EditSucceeded(s)
         \/ EditFailed(s)

\* Every read of a context file and every external call eventually ends, and
\* the event loop then runs the continuation that awaits it.
FairSpec == Spec /\ \A s \in 1..MaxInFlight : WF_vars(Resume(s))

\* A second image file for the base-image file input, to tell the image of
\* one upload from the image of the next.
OtherBaseFiles ==
    { [name |-> "b.png", type |-> ImagePng, data |-> <<"B">>] }

NextTwoImages ==
    \/ Next
    \/ \E file \in OtherBaseFiles : HandleInitialImageUpload(file)

SpecTwoImages == Init /\ [][NextTwoImages]_vars

-----------------------------------------------------------------------------
(* Properties *)

Last(seq) == seq[Len(seq)]

\* A submission is accepted: handleEdit got past line 92.
Accepted == (SubmitClick \/ EnterKey) /\ Len(edits') = Len(edits) + 1

\* The requests of line 375 that are out.
OutstandingCalls == { s \in EditSlots : AtCall(s) }

\* C1: single-flight.  At most one external image-edit call is outstanding
\* at any time, and a submit made while an earlier submission is still
\* pending adds no user entry to the log and starts no continuation.
C1_SingleFlight ==
    [][ /\ Cardinality(OutstandingCalls') <= 1
        /\ (edits # <<>> /\ (SubmitClick \/ EnterKey))
             => (chatHistory' = chatHistory /\ edits' = edits) ]_vars

\* C2: cursor bounds.  While there is no version the cursor is -1 and no
\* upload has completed yet (empty log, nothing pending on a version);
\* otherwise the cursor is an index of the version list.
C2_CursorBounds ==
    IF historyStack = <<>>
    THEN historyIndex = -1 /\ chatHistory = <<>> /\ edits = <<>>
    ELSE 0 <= historyIndex /\ historyIndex < Len(historyStack)

\* A redo was made while a submission taken at the first of two versions is
\* pending.
C2_Witness ==
    /\ Len(historyStack) = 2
    /\ historyIndex = 1
    /\ \E s \in EditSlots :
          edits[s].historyStack = historyStack /\ edits[s].historyIndex = 0

\* C3: redo-branch overwrite.  When a submission succeeds and the versions
\* and the cursor i are those it was submitted with, the versions become
\* the old versions 0..i followed by the new one, nothing beyond i is left,
\* the cursor is i+1, the last index, and redo does nothing.
C3_RedoBranchOverwrite ==
    [][ \A s \in EditSlots :
          \A outcome \in ServiceOutcomes(edits[s].baseImage) :
            ( /\ ~editImage(outcome).thrown
              /\ EditReturned(s, outcome)
              /\ edits[s].historyStack = historyStack
              /\ edits[s].historyIndex = historyIndex )
            => /\ historyStack' =
                    Append(SubSeq(historyStack, 1, historyIndex + 1),
                           [imageUrl |-> DataUrl(outcome.mimeType, outcome.data),
                            mimeType |-> outcome.mimeType])
               /\ Len(historyStack') = historyIndex + 2
               /\ historyIndex' = historyIndex + 1
               /\ historyIndex' = Len(historyStack') - 1
               /\ ~canRedo'
               /\ RedoIndex' = historyIndex' ]_vars

\* Two submissions after one upload, the second one made after an undo: the
\* log shows three images, the version list holds two.
C3_Witness ==
    /\ edits = <<>> /\ uploads = <<>>
    /\ Len(chatHistory) = 5
    /\ chatHistory[1].type = "bot" /\ chatHistory[2].type = "user"
    /\ chatHistory[3].type = "bot" /\ chatHistory[4].type = "user"
    /\ chatHistory[5].type = "bot"
    /\ Len(historyStack) = 2
    /\ historyIndex = 1
    /\ historyStack[1].imageUrl = chatHistory[1].imageUrl
    /\ historyStack[2].imageUrl = chatHistory[5].imageUrl
    /\ ~canRedo

\* The application of a failure to the continuation in slot s.
FailureApplied(s) == ContextUnreadable(s) \/ EditFailed(s)

\* The application of a successful result to the continuation in slot s.
SuccessApplied(s) == EditSucceeded(s)

\* C4: failed submission rollback.  When a failure is applied, versions and
\* cursor stay as they are and the log loses exactly one entry, the user
\* entry this submission added; all other entries stay, in their order.
C4_FailedSubmissionRollback ==
    [][ \A s \in EditSlots :
          FailureApplied(s)
          => /\ historyStack' = historyStack
             /\ historyIndex' = historyIndex
             /\ \E k \in DOMAIN chatHistory :
                  /\ chatHistory[k] = edits[s].userMessage
                  /\ chatHistory' = RemoveAt(chatHistory, k) ]_vars

\* C5: successful submission.  The accepted submit appends one user entry
\* carrying the prompt; until the result is applied nothing else is added to
\* or removed from the log; applying the successful result appends one bot
\* entry carrying the new image right after that user entry, and the current
\* version is then the new image.
C5_SuccessfulSubmission ==
    [][ /\ Accepted
          => /\ Len(chatHistory') = Len(chatHistory) + 1
             /\ SubSeq(chatHistory', 1, Len(chatHistory)) = chatHistory
             /\ Last(chatHistory').type = "user"
             /\ Last(chatHistory').prompt = prompt
        /\ (edits # <<>> /\ Len(edits') = Len(edits))
          => chatHistory' = chatHistory
        /\ \A s \in EditSlots :
             \A outcome \in ServiceOutcomes(edits[s].baseImage) :
               (~editImage(outcome).thrown /\ EditReturned(s, outcome))
               => /\ Last(chatHistory) = edits[s].userMessage
                  /\ Len(chatHistory') = Len(chatHistory) + 1
                  /\ SubSeq(chatHistory', 1, Len(chatHistory)) = chatHistory
                  /\ Last(chatHistory').type = "bot"
                  /\ Last(chatHistory').imageUrl =
                       DataUrl(outcome.mimeType, outcome.data)
                  /\ ElemAt(historyStack', historyIndex') =
                       [imageUrl |-> DataUrl(outcome.mimeType, outcome.data),
                        mimeType |-> outcome.mimeType] ]_vars

\* C6: preview released exactly once.  Every object URL that was created
\* and is no longer the preview of the pending context image has been
\* revoked exactly once, and the one that still is has not been revoked.
C6_PreviewReleasedOnce ==
    \A u \in 1..nextUrl :
        IF contextImage # Null /\ contextImage.url = u
        THEN revoked[u] = 0
        ELSE revoked[u] = 1

\* C7: reset on upload.  When the read of an uploaded image file completes,
\* the versions are exactly that image, the cursor is 0, the log is one bot
\* entry showing that image, and prompt and pending context are cleared,
\* whatever the state was.
C7_ResetOnUpload ==
    [][ \A s \in UploadSlots :
          UploadLoaded(s)
          => /\ Len(historyStack') = 1
             /\ dataUrlToBase64(historyStack'[1].imageUrl) = uploads[s].file.data
             /\ historyStack'[1].mimeType = uploads[s].file.type
             /\ historyIndex' = 0
             /\ Len(chatHistory') = 1
             /\ chatHistory'[1].type = "bot"
             /\ chatHistory'[1].imageUrl = historyStack'[1].imageUrl
             /\ chatHistory'[1].mimeType = historyStack'[1].mimeType
             /\ prompt' = <<>>
             /\ contextImage' = Null ]_vars

\* An upload completed while a submission made on a history of two versions
\* is pending.
C7_Witness ==
    /\ Len(historyStack) = 1
    /\ historyIndex = 0
    /\ Len(chatHistory) = 1
    /\ chatHistory[1].type = "bot"
    /\ prompt = <<>>
    /\ contextImage = Null
    /\ uploads = <<>>
    /\ \E s \in EditSlots : Len(edits[s].historyStack) = 2

\* A text of whitespace characters only (the empty text included).
IsBlank(text) == \A i \in 1..Len(text) : text[i] \in Whitespace

\* C8: precondition violation.  A submit made without a current version or
\* with a blank prompt surfaces the error and changes nothing else; no
\* continuation is started, so no external call is issued.
C8_PreconditionViolation ==
    [][ ( /\ SubmitClick \/ EnterKey
          /\ ElemAt(historyStack, historyIndex) = Null \/ IsBlank(prompt) )
        => /\ error' = PreconditionMessage
           /\ error' # NoError
           /\ UNCHANGED <<chatHistory, historyStack, historyIndex,
                          contextImage, prompt, isLoading, edits, uploads,
                          nextUrl, revoked>> ]_vars

\* Enter was pressed over a prompt of whitespace only.
C8_Witness ==
    /\ error = PreconditionMessage
    /\ prompt # <<>>
    /\ IsBlank(prompt)
    /\ historyStack # <<>>
    /\ edits = <<>>

\* The step commits a result: a bot entry is appended to the log and its
\* image is the last of the versions, where the cursor is; no error is set.
CommittedStep ==
    /\ Len(chatHistory') = Len(chatHistory) + 1
    /\ SubSeq(chatHistory', 1, Len(chatHistory)) = chatHistory
    /\ Last(chatHistory').type = "bot"
    /\ historyStack' # <<>>
    /\ Last(historyStack').imageUrl = Last(chatHistory').imageUrl
    /\ historyIndex' = Len(historyStack') - 1
    /\ error' = error

\* The step rolls the submission of continuation h back: versions and cursor
\* are kept, the entries with the id of its user entry leave the log and an
\* error is surfaced.
RolledBackStep(h) ==
    /\ historyStack' = historyStack
    /\ historyIndex' = historyIndex
    /\ chatHistory' = Filter(chatHistory, h.userMessage.id)
    /\ error' # NoError

\* The continuation in slot s moves from the read of the context file to the
\* external call.
Advanced(s) ==
    /\ edits[s].pc = "read"
    /\ Len(edits') = Len(edits)
    /\ edits' = [edits EXCEPT ![s].pc = "call",
                              ![s].contextImg = edits'[s].contextImg]

\* The oldest pending continuation has its result applied.
OldestApplied == edits # <<>> /\ (FailureApplied(1) \/ SuccessApplied(1))

Attached ==
    \E file \in ContextFiles :
        StartsWithImage(file.type) /\ HandleContextImageSelect(file)

\* C10: error display.  Right after an upload completes, a context image is
\* attached, or a submission's successful result is applied, no error is
\* shown.
C10_ErrorCleared ==
    [][ ( \/ \E s \in UploadSlots : UploadLoaded(s)
          \/ Attached
          \/ \E s \in EditSlots : SuccessApplied(s) )
        => error' = NoError ]_vars

\* An upload is rejected because its file is not an image: line 44.
InvalidUploadRejected ==
    \E file \in BaseFiles :
        ~StartsWithImage(file.type) /\ HandleInitialImageUpload(file)

\* C11: a rejected upload mutates no state.  An upload whose file is not an
\* image or cannot be read surfaces an error and leaves versions, cursor,
\* log, prompt and pending context as they are; the in-flight flag is as
\* before: untouched by the rejection of a file that is not an image, and
\* after the rejection of an unreadable file set exactly when a submission
\* is pending.
C11_RejectedUploadNoMutation ==
    [][ /\ InvalidUploadRejected
          => /\ error' # NoError
             /\ UNCHANGED <<historyStack, historyIndex, chatHistory, prompt,
                            contextImage, isLoading>>
        /\ \A s \in UploadSlots :
             UploadUnreadable(s)
             => /\ error' # NoError
                /\ UNCHANGED <<historyStack, historyIndex, chatHistory,
                               prompt, contextImage>>
                /\ isLoading' = (edits' # <<>>) ]_vars

\* The image bytes a data URL carries start with the bytes of image x: the
\* image is x or was generated from x by external calls.
DerivesFrom(dataUrl, x) ==
    /\ Len(dataUrlToBase64(dataUrl)) >= Len(x)
    /\ SubSeq(dataUrlToBase64(dataUrl), 1, Len(x)) = x

\* The image of the last completed upload: the log starts with the bot entry
\* of that upload (lines 54-59), later entries are appended after it and
\* only user entries are removed (line 138).
SessionImage == dataUrlToBase64(chatHistory[1].imageUrl)

\* C12: an upload starts a fresh session.  Once an upload of X has
\* completed, every version and every image shown in the log is X or was
\* generated from X: nothing of an earlier session is there, also when a
\* submission of the earlier session has its result applied afterwards.
C12_UploadStartsFreshSession ==
    historyStack # <<>>
    => /\ chatHistory # <<>>
       /\ chatHistory[1].type = "bot"
       /\ \A k \in DOMAIN historyStack :
            DerivesFrom(historyStack[k].imageUrl, SessionImage)
       /\ \A k \in DOMAIN chatHistory :
            chatHistory[k].type = "bot"
            => DerivesFrom(chatHistory[k].imageUrl, SessionImage)

\* C13: commit uses the cursor at commit time.  When a submission succeeds
\* after undo or redo moved the cursor i away from where it was at the
\* submit (the versions being those of the submit), the versions become the
\* versions 0..i for the cursor i of that moment followed by the new one,
\* and the cursor becomes the last index.
C13_CommitAtCurrentCursor ==
    [][ \A s \in EditSlots :
          \A outcome \in ServiceOutcomes(edits[s].baseImage) :
            ( /\ ~editImage(outcome).thrown
              /\ EditReturned(s, outcome)
              /\ edits[s].historyStack = historyStack
              /\ edits[s].historyIndex # historyIndex )
            => /\ historyStack' =
                    Append(SubSeq(historyStack, 1, historyIndex + 1),
                           [imageUrl |-> DataUrl(outcome.mimeType, outcome.data),
                            mimeType |-> outcome.mimeType])
               /\ historyIndex' = Len(historyStack') - 1 ]_vars

\* The step ends the submission of the continuation in slot s rolled back
\* and not committed: an error is surfaced, versions and cursor are kept,
\* the log gains nothing and holds no entry of the submission, and the
\* continuation is gone without another call being out for it.
EndsRolledBack(s) ==
    /\ error' # NoError
    /\ historyStack' = historyStack
    /\ historyIndex' = historyIndex
    /\ Len(chatHistory') <= Len(chatHistory)
    /\ \A k \in DOMAIN chatHistory' : chatHistory'[k] # edits[s].userMessage
    /\ edits' = RemoveAt(edits, s)
    /\ Cardinality(OutstandingCalls') <= Cardinality(OutstandingCalls)

\* C14: every failure ends in rollback, without retry.  Whether the remote
\* service throws, answers without an image part, or the context file
\* cannot be read, the submission ends rolled back with an error surfaced.
\* An external call is issued only by an accepted submit or by the end of
\* its context read, one call per step, so once per submission and never
\* after a failure.
C14_FailureEndsInRollback ==
    [][ /\ \A s \in EditSlots :
             \A outcome \in ServiceOutcomes(edits[s].baseImage) :
               (outcome.kind # "image" /\ EditReturned(s, outcome))
               => EndsRolledBack(s)
        /\ \A s \in EditSlots : ContextUnreadable(s) => EndsRolledBack(s)
        /\ Cardinality(OutstandingCalls') > Cardinality(OutstandingCalls)
             => /\ Accepted \/ \E s \in EditSlots : ContextLoaded(s)
                /\ Cardinality(OutstandingCalls') =
                     Cardinality(OutstandingCalls) + 1 ]_vars

\* A submission with a context image ended by the failure of the read of
\* the context file, another one had ended committed before.
C14_Witness ==
    /\ error = UnknownErrorMessage
    /\ edits = <<>>
    /\ ~isLoading
    /\ Len(historyStack) = 2
    /\ \A k \in DOMAIN chatHistory : chatHistory[k].type = "bot"

\* C15: undo and redo change only the cursor.  Undo takes the cursor down
\* by exactly 1 when it is above 0 and leaves it otherwise, redo takes it up
\* by exactly 1 when it is below the last index and leaves it otherwise;
\* neither changes versions, log, prompt, pending context, error, in-flight
\* flag or anything pending, and after an undo a redo is possible and leads
\* back to the cursor the undo started from.
C15_UndoRedoOnlyCursor ==
    [][ /\ HandleUndo
          => /\ historyIndex > 0
             /\ historyIndex' = historyIndex - 1
             /\ canRedo'
             /\ RedoIndex' = historyIndex
             /\ UNCHANGED <<historyStack, chatHistory, prompt, contextImage,
                            error, isLoading, edits, uploads, nextUrl, revoked>>
        /\ HandleRedo
          => /\ historyIndex < Len(historyStack) - 1
             /\ historyIndex' = historyIndex + 1
             /\ canUndo'
             /\ UndoIndex' = historyIndex
             /\ UNCHANGED <<historyStack, chatHistory, prompt, contextImage,
                            error, isLoading, edits, uploads, nextUrl, revoked>>
        /\ ~(historyIndex > 0) => UndoIndex = historyIndex
        /\ ~(historyIndex < Len(historyStack) - 1) => RedoIndex = historyIndex
      ]_vars

\* An undo was made; a submission is pending and an error is shown.
C15_Witness ==
    /\ Len(historyStack) = 2
    /\ historyIndex = 0
    /\ canRedo
    /\ edits # <<>>
    /\ isLoading
    /\ error # NoError

\* C16: the log is append-only between uploads.  A step that is not the
\* completion of an upload leaves the log as it is, appends one entry at its
\* end, or removes its last entry, which then is a user entry.
C16_LogAppendOnly ==
    [][ (\A s \in UploadSlots : ~UploadLoaded(s))
        => \/ chatHistory' = chatHistory
           \/ /\ Len(chatHistory') = Len(chatHistory) + 1
              /\ SubSeq(chatHistory', 1, Len(chatHistory)) = chatHistory
           \/ /\ chatHistory # <<>>
              /\ Last(chatHistory).type = "user"
              /\ chatHistory' = SubSeq(chatHistory, 1, Len(chatHistory) - 1)
      ]_vars

\* C17: entry ids are unique.  The id of every entry of the log is the
\* entry's type followed by a clock reading, and no two entries of the log
\* have the same id.
C17_UniqueIds ==
    /\ \A k \in DOMAIN chatHistory :
         /\ chatHistory[k].id[1] = chatHistory[k].type
         /\ chatHistory[k].id[2] \in 0..now
    /\ \A i, j \in DOMAIN chatHistory :
         i # j => chatHistory[i].id # chatHistory[j].id

\* The image bytes of the image files that can be uploaded.
UploadableImages ==
    { file.data : file \in { f \in BaseFiles \cup OtherBaseFiles :
                               StartsWithImage(f.type) } }

\* C18: history lineage.  The first version is an uploaded image, and every
\* other version is the answer of an external call whose base image was the
\* version before it.
C18_HistoryLineage ==
    \A k \in DOMAIN historyStack :
        IF k = 1
        THEN dataUrlToBase64(historyStack[1].imageUrl) \in UploadableImages
        ELSE \E t \in ResponseTags :
               dataUrlToBase64(historyStack[k].imageUrl) =
                 Append(dataUrlToBase64(historyStack[k - 1].imageUrl), t)

\* The result of a submission made on one image was applied after the
\* upload of another image had completed.
C18_Witness ==
    /\ Len(historyStack) = 2
    /\ chatHistory # <<>>
    /\ chatHistory[1].imageUrl # historyStack[1].imageUrl
    /\ edits = <<>>

\* C19: log and history are synchronized.  While there are versions, the
\* log has a bot entry, and the last of its bot entries shows the image of
\* the last version.
C19_LogHistorySync ==
    historyStack # <<>>
    => \E k \in DOMAIN chatHistory :
         /\ chatHistory[k].type = "bot"
         /\ \A j \in DOMAIN chatHistory : j > k => chatHistory[j].type # "bot"
         /\ chatHistory[k].imageUrl = Last(historyStack).imageUrl
         /\ chatHistory[k].mimeType = Last(historyStack).mimeType

\* After a committed submission and an undo, a submission made on the first
\* version failed because of the remote service.
C19_Witness ==
    /\ Len(historyStack) = 2
    /\ historyIndex = 0
    /\ error = FailedToEdit(<<"quota">>)
    /\ edits = <<>>
    /\ Len(chatHistory) = 3

\* C20: no dangling preview reference in the log.  No entry of the log
\* refers to a preview URL that has been revoked.
C20_NoDanglingPreview ==
    \A k \in DOMAIN chatHistory :
        "contextImageUrl" \in DOMAIN chatHistory[k]
        => revoked[chatHistory[k].contextImageUrl] = 0

=============================================================================
